---- MODULE Spec2Model ----
(***************************************************************************)
(* Model of packages/@aws-accelerator/config/lib/global-config.ts:         *)
(* the globalConfig schema, the default-valued GlobalConfig class, its     *)
(* constructor (overlay + region rule) and the two loaders, load(dir) and  *)
(* loadFromString(content).                                                *)
(*                                                                         *)
(* A JavaScript object is a TLA+ record holding exactly the keys that are  *)
(* present; a key whose value is undefined is modelled as an absent key.   *)
(* Scalars in documents always have the kind the schema declares, so the   *)
(* structural violations that occur are: a missing required key, an empty  *)
(* string where a non-empty one is required, a region outside the          *)
(* supported set and a value outside an enum.                              *)
(***************************************************************************)
EXTENDS Integers, Sequences, FiniteSets, TLC

VARIABLES
    content,      \* the text of the configuration document
    fileExists,   \* whether <dir>/global-config.yaml can be read
    pc,           \* position of the load(dir) call in progress
    buffer,       \* load: const buffer
    tree,         \* load: the value yaml.load returned
    values,       \* load: const values
    ran,          \* load: the stages the current call has run so far
    loadResult,   \* outcome of the last load(dir) call
    strResult,    \* outcome of the last loadFromString(content) call
    ctorResult    \* outcome of the last direct new GlobalConfig(props, values)

vars == <<content, fileExists, pc, buffer, tree, values, ran,
          loadResult, strResult, ctorResult>>

(***************************************************************************)
(* Bounds and input alphabets                                              *)
(***************************************************************************)
MaxRegions == 2

\* region names a document may list under enabledRegions ("mars-1" is not
\* a supported region)
EnabledRegionChoices == {"us-east-1", "eu-west-1", "us-gov-west-1", "mars-1"}

\* home regions a document or a caller may name
HomeRegions == {"us-east-1", "eu-west-1", "us-gov-west-1", "us-gov-east-1"}

\* props.homeRegion of a direct constructor call: any string
PropsHomeRegions == HomeRegions \cup {"mars-1"}

(***************************************************************************)
(* JavaScript values                                                       *)
(***************************************************************************)
Undefined == [undefined |-> TRUE]

NoCall == [kind |-> "none"]

Return(v) == [kind |-> "return", value |-> v]

Throw(e) == [kind |-> "throw", error |-> e]

Has(obj, key) == key \in DOMAIN obj

\* Array.prototype.includes
Includes(arr, x) == \E i \in DOMAIN arr : arr[i] = x

\* Object.assign(target, source): every own key of source overwrites or
\* adds the key of the same name in target; other keys of target stay
ObjectAssign(target, source) ==
    [k \in (DOMAIN target) \cup (DOMAIN source) |->
        IF k \in DOMAIN source THEN source[k] ELSE target[k]]

(***************************************************************************)
(* Type descriptors (common-types: t.boolean, t.number, t.string,          *)
(* t.nonEmptyString, t.region, t.enums, t.optional, t.array, t.interface)  *)
(***************************************************************************)
tBoolean == [kind |-> "boolean"]

tNumber == [kind |-> "number"]

tString == [kind |-> "string"]

tNonEmptyString == [kind |-> "nonEmptyString"]

tRegion == [kind |-> "region"]

tEnums(name, allowed) == [kind |-> "enum", name |-> name, allowed |-> allowed]

tOptional(inner) == [kind |-> "optional", inner |-> inner]

tArray(inner) == [kind |-> "array", inner |-> inner]

tInterface(fields) == [kind |-> "interface", fields |-> fields]

\* the fixed set of supported region identifiers behind t.region
SupportedRegions ==
    {"us-east-1", "us-east-2", "us-west-2", "eu-west-1",
     "us-gov-west-1", "us-gov-east-1"}

(***************************************************************************)
(* GlobalConfigTypes: the schema                                           *)
(***************************************************************************)
controlTowerConfig == tInterface([enable |-> tBoolean])

cloudtrailConfig == tInterface([enable |-> tBoolean, organizationTrail |-> tBoolean])

sessionManagerConfig ==
    tInterface([sendToCloudWatchLogs |-> tBoolean,
                sendToS3 |-> tBoolean,
                excludeRegions |-> tOptional(tArray(tRegion)),
                excludeAccounts |-> tOptional(tArray(tString))])

loggingConfig ==
    tInterface([account |-> tNonEmptyString,
                cloudtrail |-> cloudtrailConfig,
                sessionManager |-> sessionManagerConfig])

identityPerimeterConfig == tInterface([enable |-> tBoolean])

resourcePerimeterConfig == tInterface([enable |-> tBoolean])

networkPerimeterConfig == tInterface([enable |-> tBoolean])

dataProtectionConfig ==
    tInterface([enable |-> tBoolean,
                identityPerimeter |-> identityPerimeterConfig,
                resourcePerimeter |-> resourcePerimeterConfig,
                networkPerimeter |-> networkPerimeterConfig])

artifactTypeEnum == tEnums("ArtifactType", {"REDSHIFT", "QUICKSIGHT", "ATHENA"})

costAndUsageReportConfig ==
    tInterface([additionalSchemaElements |-> tOptional(tArray(tNonEmptyString)),
                compression |-> tEnums("CompressionType", {"ZIP", "GZIP", "Parquet"}),
                format |-> tEnums("FormatType", {"textORcsv", "Parquet"}),
                reportName |-> tNonEmptyString,
                s3Prefix |-> tNonEmptyString,
                timeUnit |-> tEnums("TimeCoverageType", {"HOURLY", "DAILY", "MONTHLY"}),
                additionalArtifacts |-> tOptional(tArray(artifactTypeEnum)),
                refreshClosedReports |-> tBoolean,
                reportVersioning |->
                    tEnums("VersioningType", {"CREATE_NEW_REPORT", "OVERWRITE_REPORT"})])

notificationConfig ==
    tInterface([notificationType |-> tEnums("NotificationType", {"ACTUAL", "FORECASTED"}),
                thresholdType |-> tEnums("ThresholdType", {"PERCENTAGE", "ABSOLUTE_VALUE"}),
                comparisonOperator |->
                    tEnums("ComparisonType", {"GREATER_THAN", "LESS_THAN", "EQUAL_TO"}),
                threshold |-> tOptional(tNumber)])

budgetsConfig ==
    tInterface([amount |-> tNumber,
                budgetName |-> tNonEmptyString,
                budgetType |->
                    tEnums("NotificationType",
                           {"USAGE", "COST", "RI_UTILIZATION", "RI_COVERAGE",
                            "SAVINGS_PLANS_UTILIZATION", "SAVINGS_PLANS_COVERAGE"}),
                timeUnit |->
                    tEnums("TimeUnitType", {"DAILY", "MONTHLY", "QUARTERLY", "ANNUALLY"}),
                address |-> tOptional(tNonEmptyString),
                includeUpfront |-> tOptional(tBoolean),
                includeTax |-> tOptional(tBoolean),
                includeSupport |-> tOptional(tBoolean),
                includeSubscription |-> tOptional(tBoolean),
                includeRecurring |-> tOptional(tBoolean),
                includeOtherSubscription |-> tOptional(tBoolean),
                includeCredit |-> tOptional(tBoolean),
                includeDiscount |-> tOptional(tBoolean),
                includeRefund |-> tOptional(tBoolean),
                useAmortized |-> tOptional(tBoolean),
                useBlended |-> tOptional(tBoolean),
                notifications |-> tOptional(tArray(notificationConfig)),
                subscriptionType |-> tEnums("SubscriptionType", {"EMAIL", "SNS"}),
                unit |-> tOptional(tNonEmptyString)])

reportConfig ==
    tInterface([costAndUsageReport |-> tOptional(costAndUsageReportConfig),
                budgets |-> tOptional(budgetsConfig)])

\* globalConfig with the four defaulted sections declared optional
globalConfig_DefaultedOptional ==
    tInterface([homeRegion |-> tNonEmptyString,
                enabledRegions |-> tArray(tRegion),
                managementAccountAccessRole |-> tOptional(tNonEmptyString),
                cloudwatchLogRetentionInDays |-> tOptional(tNumber),
                controlTower |-> tOptional(controlTowerConfig),
                logging |-> tOptional(loggingConfig),
                dataProtection |-> tOptional(dataProtectionConfig),
                reports |-> tOptional(reportConfig)])

globalConfig ==
    tInterface([homeRegion |-> tNonEmptyString,
                enabledRegions |-> tArray(tRegion),
                managementAccountAccessRole |-> tNonEmptyString,
                cloudwatchLogRetentionInDays |-> tNumber,
                controlTower |-> controlTowerConfig,
                logging |-> loggingConfig,
                dataProtection |-> tOptional(dataProtectionConfig),
                reports |-> tOptional(reportConfig)])

(***************************************************************************)
(* The parser (common-types: descriptor.validate and t.parse)              *)
(***************************************************************************)
RECURSIVE Violations(_, _, _)
RECURSIVE FieldViolations(_, _, _, _)

\* the paths at which the present value v breaks descriptor d
Violations(d, v, path) ==
    CASE d.kind = "optional" -> Violations(d.inner, v, path)
      [] d.kind = "nonEmptyString" -> IF v = "" THEN {path} ELSE {}
      [] d.kind = "region" -> IF v \in SupportedRegions THEN {} ELSE {path}
      [] d.kind = "enum" -> IF v \in d.allowed THEN {} ELSE {path}
      [] d.kind = "array" ->
            UNION {Violations(d.inner, v[i], path) : i \in DOMAIN v}
      [] d.kind = "interface" ->
            UNION {FieldViolations(d.fields[f], v, f, Append(path, f)) :
                       f \in DOMAIN d.fields}
      [] OTHER -> {}

\* the violations of field key of object obj: a missing key is a violation
\* unless the field is optional; keys the interface does not declare are
\* never looked at
FieldViolations(d, obj, key, path) ==
    IF Has(obj, key)
    THEN Violations(d, obj[key], path)
    ELSE IF d.kind = "optional" THEN {} ELSE {path}

\* t.parse(type, content): the typed value, or a thrown error carrying
\* every violation found
parse(type, value) ==
    LET found == Violations(type, value, <<>>)
    IN  IF found = {}
        THEN Return(value)
        ELSE Throw([name |-> "SchemaValidationError", violations |-> found])

(***************************************************************************)
(* The default-valued classes                                              *)
(***************************************************************************)
FILENAME == "global-config.yaml"

ControlTowerConfig == [enable |-> TRUE]

CloudtrailConfig == [enable |-> FALSE, organizationTrail |-> FALSE]

SessionManagerConfig ==
    [sendToCloudWatchLogs |-> FALSE,
     sendToS3 |-> FALSE,
     excludeRegions |-> <<>>,
     excludeAccounts |-> <<>>]

\* LoggingConfig with an empty default account name
LoggingConfig_EmptyAccount ==
    [account |-> "",
     cloudtrail |-> CloudtrailConfig,
     sessionManager |-> SessionManagerConfig]

LoggingConfig ==
    [account |-> "LogArchive",
     cloudtrail |-> CloudtrailConfig,
     sessionManager |-> SessionManagerConfig]

\* the GlobalConfig instance after its field initializers have run:
\* homeRegion and enabledRegions have no initializer, dataProtection and
\* reports are initialized to undefined
FieldInitializers ==
    [managementAccountAccessRole |-> "AWSControlTowerExecution",
     cloudwatchLogRetentionInDays |-> 365,
     controlTower |-> ControlTowerConfig,
     logging |-> LoggingConfig]

(***************************************************************************)
(* The constructor                                                         *)
(***************************************************************************)
\* Overlay merging a supplied logging section into the default one field by
\* field instead of replacing it
Overlay_MergesLogging(this, vals) ==
    IF vals # Undefined
    THEN IF Has(vals, "logging")
         THEN ObjectAssign(ObjectAssign(this, vals),
                  [logging |->
                      [account |-> vals.logging.account,
                       cloudtrail |->
                           ObjectAssign(this.logging.cloudtrail, vals.logging.cloudtrail),
                       sessionManager |->
                           ObjectAssign(this.logging.sessionManager,
                                        vals.logging.sessionManager)]])
         ELSE ObjectAssign(this, vals)
    ELSE this

\* if (values) { Object.assign(this, values); }
Overlay(this, vals) ==
    IF vals # Undefined THEN ObjectAssign(this, vals) ELSE this

\* SetRegions that keeps an enabledRegions list the overlay has put in place
SetRegions_KeepsOverlaid(this, props) ==
    IF Has(this, "enabledRegions")
    THEN ObjectAssign(this, [homeRegion |-> props.homeRegion])
    ELSE ObjectAssign(this, [homeRegion |-> props.homeRegion,
                             enabledRegions |-> <<props.homeRegion>>])

\* this.homeRegion = props.homeRegion;
\* this.enabledRegions = [props.homeRegion as Region];
SetRegions(this, props) ==
    ObjectAssign(this, [homeRegion |-> props.homeRegion,
                        enabledRegions |-> <<props.homeRegion>>])

GovCloudError == "The region us-gov-west-1 must be the home region."

EnabledRegionError ==
    "The region us-east-1 must be included in the list of enabled regions"

\* RegionErrors with the commercial test joined by "or" instead of "and"
RegionErrors_Or(vals) ==
    IF /\ vals # Undefined
       /\ Has(vals, "homeRegion")
       /\ Has(vals, "cloudwatchLogRetentionInDays")
    THEN IF vals.homeRegion = "us-gov-west-1" \/ vals.homeRegion = "us-gov-east-1"
         THEN IF vals.homeRegion # "us-gov-west-1" THEN <<GovCloudError>> ELSE <<>>
         ELSE IF \/ vals.homeRegion # "us-east-1"
                 \/ ~Includes(vals.enabledRegions, "us-east-1")
              THEN <<EnabledRegionError>>
              ELSE <<>>
    ELSE <<>>

\* RegionErrors without the GovCloud branch: every home region is held to
\* the commercial rule
RegionErrors_NoGovCloud(vals) ==
    IF /\ vals # Undefined
       /\ Has(vals, "homeRegion")
       /\ Has(vals, "cloudwatchLogRetentionInDays")
    THEN IF /\ vals.homeRegion # "us-east-1"
            /\ ~Includes(vals.enabledRegions, "us-east-1")
         THEN <<EnabledRegionError>>
         ELSE <<>>
    ELSE <<>>

\* the errors the region rule collects
RegionErrors(vals) ==
    IF /\ vals # Undefined
       /\ Has(vals, "homeRegion")
       /\ Has(vals, "cloudwatchLogRetentionInDays")
    THEN IF vals.homeRegion = "us-gov-west-1" \/ vals.homeRegion = "us-gov-east-1"
         THEN IF vals.homeRegion # "us-gov-west-1" THEN <<GovCloudError>> ELSE <<>>
         ELSE IF /\ vals.homeRegion # "us-east-1"
                 /\ ~Includes(vals.enabledRegions, "us-east-1")
              THEN <<EnabledRegionError>>
              ELSE <<>>
    ELSE <<>>

\* `${FILENAME} has ${errors.length} issues: ${errors.join(' ')}`
IssuesError(errors) ==
    [name |-> "Error", file |-> FILENAME, count |-> Len(errors), issues |-> errors]

\* GlobalConfig with the region rule evaluated on the constructed object
\* instead of on values
GlobalConfig_ChecksThis(props, vals) ==
    LET this   == SetRegions(Overlay(FieldInitializers, vals), props)
        errors == RegionErrors(this)
    IN  IF Len(errors) # 0 THEN Throw(IssuesError(errors)) ELSE Return(this)

\* new GlobalConfig(props, values): the constructed object, or the thrown
\* error
GlobalConfig(props, vals) ==
    LET this   == SetRegions(Overlay(FieldInitializers, vals), props)
        errors == RegionErrors(vals)
    IN  IF Len(errors) # 0 THEN Throw(IssuesError(errors)) ELSE Return(this)

(***************************************************************************)
(* The collaborators of the loaders                                        *)
(***************************************************************************)
\* fs.readFileSync(path.join(dir, FILENAME), 'utf8')
readFileSync(exists, text) ==
    IF exists THEN Return(text) ELSE Throw([name |-> "Error", code |-> "ENOENT"])

\* yaml.load(text): the generic tree, or a syntax error
yamlLoad(text) ==
    IF text.syntaxOk THEN Return(text.tree) ELSE Throw([name |-> "YAMLException"])

(***************************************************************************)
(* loadFromString(content)                                                 *)
(***************************************************************************)
LogLines(e) == <<"[global-config] Error parsing input, global config undefined", e>>

\* the try block: parse the deserialized content, then new GlobalConfig(values)
loadFromStringTry(text) ==
    LET loaded == yamlLoad(text)
    IN  IF loaded.kind = "throw" THEN loaded
        ELSE LET parsed == parse(globalConfig, loaded.value)
             IN  IF parsed.kind = "throw" THEN parsed
                 ELSE GlobalConfig(parsed.value, Undefined)

\* loadFromString whose catch handles only a YAML syntax error and lets
\* every other error reach the caller
loadFromString_Rethrows(text) ==
    LET tried == loadFromStringTry(text)
    IN  IF tried.kind = "throw"
        THEN IF tried.error.name = "YAMLException"
             THEN [kind |-> "return", value |-> Undefined, log |-> LogLines(tried.error)]
             ELSE [kind |-> "throw", error |-> tried.error, log |-> <<>>]
        ELSE [kind |-> "return", value |-> tried.value, log |-> <<>>]

\* the whole call: what it returns or throws, and what it logs
loadFromString(text) ==
    LET tried == loadFromStringTry(text)
    IN  IF tried.kind = "throw"
        THEN [kind |-> "return", value |-> Undefined, log |-> LogLines(tried.error)]
        ELSE [kind |-> "return", value |-> tried.value, log |-> <<>>]

(***************************************************************************)
(* The documents the loaders are given                                     *)
(***************************************************************************)
EmptyObject == [k \in {} |-> TRUE]

RegionLists == UNION {[1..n -> EnabledRegionChoices] : n \in 0..MaxRegions}

HomeRegionParts == {EmptyObject} \cup {[homeRegion |-> h] : h \in HomeRegions}

EnabledRegionsParts == {EmptyObject} \cup {[enabledRegions |-> l] : l \in RegionLists}

\* the required sections, with values that differ from the defaults
RequiredPart ==
    [managementAccountAccessRole |-> "OrganizationAccountAccessRole",
     cloudwatchLogRetentionInDays |-> 90,
     controlTower |-> [enable |-> FALSE],
     logging |-> [account |-> "Logs",
                  cloudtrail |-> [enable |-> TRUE, organizationTrail |-> TRUE],
                  sessionManager |-> [sendToCloudWatchLogs |-> TRUE,
                                      sendToS3 |-> TRUE]]]

\* the required sections, with the values the defaults have
DefaultsPart ==
    [managementAccountAccessRole |-> "AWSControlTowerExecution",
     cloudwatchLogRetentionInDays |-> 365,
     controlTower |-> [enable |-> TRUE],
     logging |-> [account |-> "LogArchive",
                  cloudtrail |-> [enable |-> FALSE, organizationTrail |-> FALSE],
                  sessionManager |-> [sendToCloudWatchLogs |-> FALSE,
                                      sendToS3 |-> FALSE,
                                      excludeRegions |-> <<>>,
                                      excludeAccounts |-> <<>>]]]

DataProtectionPart ==
    [dataProtection |-> [enable |-> TRUE,
                         identityPerimeter |-> [enable |-> TRUE],
                         resourcePerimeter |-> [enable |-> TRUE],
                         networkPerimeter |-> [enable |-> FALSE]]]

CostAndUsageReportPart(compression) ==
    [compression |-> compression,
     format |-> "Parquet",
     reportName |-> "accelerator-cur",
     s3Prefix |-> "cur",
     timeUnit |-> "DAILY",
     refreshClosedReports |-> TRUE,
     reportVersioning |-> "CREATE_NEW_REPORT"]

ReportsPart(compression) ==
    [reports |-> [costAndUsageReport |-> CostAndUsageReportPart(compression)]]

\* what a document holds besides homeRegion and enabledRegions: nothing,
\* the required sections (with default or with other values), all sections,
\* all sections but the required cloudwatchLogRetentionInDays, all sections
\* with a compression outside its enum
OtherParts ==
    {EmptyObject,
     DefaultsPart,
     RequiredPart,
     ObjectAssign(ObjectAssign(RequiredPart, DataProtectionPart), ReportsPart("Parquet")),
     [k \in (DOMAIN RequiredPart) \ {"cloudwatchLogRetentionInDays"} |-> RequiredPart[k]],
     ObjectAssign(ObjectAssign(RequiredPart, DataProtectionPart), ReportsPart("LZ4"))}

Documents ==
    {ObjectAssign(ObjectAssign(h, e), o) :
        h \in HomeRegionParts, e \in EnabledRegionsParts, o \in OtherParts}

\* a text is either not valid YAML or the serialization of a document
Texts ==
    {[syntaxOk |-> FALSE, tree |-> EmptyObject]}
        \cup {[syntaxOk |-> TRUE, tree |-> d] : d \in Documents}

\* the typed values a caller can hand to the constructor: none, or the
\* values the document parses to
TypedValues(text) ==
    {Undefined} \cup
        (IF text.syntaxOk /\ parse(globalConfig, text.tree).kind = "return"
         THEN {text.tree} ELSE {})

(***************************************************************************)
(* The state machine                                                       *)
(***************************************************************************)
Init ==
    /\ content \in Texts
    /\ fileExists \in BOOLEAN
    /\ pc = "idle"
    /\ buffer = Undefined
    /\ tree = Undefined
    /\ values = Undefined
    /\ ran = <<>>
    /\ loadResult = NoCall
    /\ strResult = NoCall
    /\ ctorResult = NoCall

\* load ends: its locals are gone, its outcome is with the caller
LoadEnds(outcome) ==
    /\ pc' = "idle"
    /\ buffer' = Undefined
    /\ tree' = Undefined
    /\ values' = Undefined
    /\ loadResult' = outcome

\* load, line 687: const buffer = fs.readFileSync(...)
LoadReadFile ==
    /\ pc = "idle"
    /\ ran' = <<"readFileSync">>
    /\ LET r == readFileSync(fileExists, content)
       IN  IF r.kind = "throw"
           THEN LoadEnds(r)
           ELSE /\ pc' = "yamlLoad"
                /\ buffer' = r.value
                /\ loadResult' = NoCall
                /\ UNCHANGED <<tree, values>>
    /\ UNCHANGED <<content, fileExists, strResult, ctorResult>>

\* load, line 688: yaml.load(buffer)
LoadYaml ==
    /\ pc = "yamlLoad"
    /\ ran' = Append(ran, "yamlLoad")
    /\ LET r == yamlLoad(buffer)
       IN  IF r.kind = "throw"
           THEN LoadEnds(r)
           ELSE /\ pc' = "parse"
                /\ tree' = r.value
                /\ UNCHANGED <<buffer, values, loadResult>>
    /\ UNCHANGED <<content, fileExists, strResult, ctorResult>>

\* LoadParse accepting the tree although the parse failed
LoadParse_Accepts ==
    /\ pc = "parse"
    /\ ran' = Append(ran, "parse")
    /\ pc' = "construct"
    /\ values' = ObjectAssign([homeRegion |-> "us-east-1",
                               enabledRegions |-> <<>>], tree)
    /\ UNCHANGED <<buffer, tree, loadResult>>
    /\ UNCHANGED <<content, fileExists, strResult, ctorResult>>

\* load, line 688: const values = t.parse(GlobalConfigTypes.globalConfig, ...)
LoadParse ==
    /\ pc = "parse"
    /\ ran' = Append(ran, "parse")
    /\ LET r == parse(globalConfig, tree)
       IN  IF r.kind = "throw"
           THEN LoadEnds(r)
           ELSE /\ pc' = "construct"
                /\ values' = r.value
                /\ UNCHANGED <<buffer, tree, loadResult>>
    /\ UNCHANGED <<content, fileExists, strResult, ctorResult>>

\* load, lines 690-697: return new GlobalConfig({ homeRegion }, values)
LoadConstruct ==
    /\ pc = "construct"
    /\ ran' = Append(ran, "construct")
    /\ LET homeRegion == values.homeRegion
       IN  LoadEnds(GlobalConfig([homeRegion |-> homeRegion], values))
    /\ UNCHANGED <<content, fileExists, strResult, ctorResult>>

\* a call of loadFromString(content)
LoadFromString ==
    /\ strResult' = loadFromString(content)
    /\ UNCHANGED <<content, fileExists, pc, buffer, tree, values, ran,
                   loadResult, ctorResult>>

\* a direct call of new GlobalConfig(props, values)
Construct ==
    \E h \in PropsHomeRegions, v \in TypedValues(content) :
        /\ ctorResult' = [kind |-> "call",
                          props |-> [homeRegion |-> h],
                          values |-> v,
                          outcome |-> GlobalConfig([homeRegion |-> h], v)]
        /\ UNCHANGED <<content, fileExists, pc, buffer, tree, values, ran,
                       loadResult, strResult>>

Next ==
    \/ LoadReadFile
    \/ LoadYaml
    \/ LoadParse
    \/ LoadConstruct
    \/ LoadFromString
    \/ Construct

Spec == Init /\ [][Next]_vars

(***************************************************************************)
(* Claims                                                                  *)
(***************************************************************************)
GovCloudRegions == {"us-gov-west-1", "us-gov-east-1"}

\* the direct constructor call was given a values object that supplies both
\* homeRegion and cloudwatchLogRetentionInDays
CtorWithValues ==
    /\ ctorResult.kind = "call"
    /\ ctorResult.values # Undefined
    /\ Has(ctorResult.values, "homeRegion")
    /\ Has(ctorResult.values, "cloudwatchLogRetentionInDays")

\* C1: a construction from values with a commercial values.homeRegion fails
\* if and only if that home region is not us-east-1 and us-east-1 is not in
\* values.enabledRegions; the failure carries the one message that us-east-1
\* must be included in the enabled regions, and the same call with us-east-1
\* added to values.enabledRegions succeeds.
C1_CommercialRule ==
    (CtorWithValues /\ ctorResult.values.homeRegion \notin GovCloudRegions) =>
        LET vals   == ctorResult.values
            failed == ctorResult.outcome.kind = "throw"
            added  == ObjectAssign(vals,
                          [enabledRegions |-> Append(vals.enabledRegions, "us-east-1")])
        IN  /\ failed <=> /\ vals.homeRegion # "us-east-1"
                          /\ \A i \in DOMAIN vals.enabledRegions :
                                 vals.enabledRegions[i] # "us-east-1"
            /\ failed =>
                 /\ ctorResult.outcome.error.file = "global-config.yaml"
                 /\ ctorResult.outcome.error.count = 1
                 /\ ctorResult.outcome.error.issues =
                      <<"The region us-east-1 must be included in the list of enabled regions">>
            /\ GlobalConfig(ctorResult.props, added).kind = "return"

\* C1 witness: a construction with home region eu-west-1 whose enabled
\* regions lack us-east-1 has failed.
C1_Witness ==
    /\ CtorWithValues
    /\ ctorResult.values.homeRegion = "eu-west-1"
    /\ ctorResult.values.enabledRegions = <<"eu-west-1">>
    /\ ctorResult.outcome.kind = "throw"

\* C2: a construction from values with values.homeRegion = us-gov-west-1
\* succeeds whatever enabledRegions holds, and one with us-gov-east-1 fails
\* with the one message that us-gov-west-1 must be the home region.
C2_GovCloudRule ==
    CtorWithValues =>
        /\ ctorResult.values.homeRegion = "us-gov-west-1" =>
               ctorResult.outcome.kind = "return"
        /\ ctorResult.values.homeRegion = "us-gov-east-1" =>
               /\ ctorResult.outcome.kind = "throw"
               /\ ctorResult.outcome.error.count = 1
               /\ ctorResult.outcome.error.issues =
                    <<"The region us-gov-west-1 must be the home region.">>

\* C2 witness: a construction with home region us-gov-west-1 whose enabled
\* regions hold neither us-east-1 nor the home region has succeeded.
C2_Witness ==
    /\ CtorWithValues
    /\ ctorResult.values.homeRegion = "us-gov-west-1"
    /\ ctorResult.values.enabledRegions = <<"eu-west-1">>
    /\ ctorResult.outcome.kind = "return"

\* C10: a construction from a homeRegion alone always succeeds and yields
\* the home region as given, enabledRegions = [homeRegion], every documented
\* default, and neither dataProtection nor reports.
C10_DefaultOnly ==
    (ctorResult.kind = "call" /\ ctorResult.values = Undefined) =>
        /\ ctorResult.outcome.kind = "return"
        /\ LET c == ctorResult.outcome.value
               h == ctorResult.props.homeRegion
           IN  /\ DOMAIN c = {"homeRegion", "enabledRegions",
                              "managementAccountAccessRole",
                              "cloudwatchLogRetentionInDays", "controlTower", "logging"}
               /\ c.homeRegion = h
               /\ c.enabledRegions = <<h>>
               /\ c.managementAccountAccessRole = "AWSControlTowerExecution"
               /\ c.cloudwatchLogRetentionInDays = 365
               /\ c.controlTower.enable = TRUE
               /\ c.logging.account = "LogArchive"
               /\ c.logging.cloudtrail.enable = FALSE
               /\ c.logging.cloudtrail.organizationTrail = FALSE
               /\ c.logging.sessionManager.sendToCloudWatchLogs = FALSE
               /\ c.logging.sessionManager.sendToS3 = FALSE

\* C10 witness: a construction from the home region us-gov-east-1 alone has
\* returned an object.
C10_Witness ==
    /\ ctorResult.kind = "call"
    /\ ctorResult.values = Undefined
    /\ ctorResult.props.homeRegion = "us-gov-east-1"
    /\ ctorResult.outcome.kind = "return"

\* the region rule as the specification words it, on a structurally valid
\* document
RegionRuleViolated(doc) ==
    \/ doc.homeRegion = "us-gov-east-1"
    \/ /\ doc.homeRegion \notin GovCloudRegions
       /\ doc.homeRegion # "us-east-1"
       /\ \A i \in DOMAIN doc.enabledRegions : doc.enabledRegions[i] # "us-east-1"

StructurallyValid(doc) == Violations(globalConfig, doc, <<>>) = {}

Stages == <<"readFileSync", "yamlLoad", "parse", "construct">>

\* the first stage of a load of the document that fails, 0 when none does
FirstFailingStage ==
    IF ~fileExists THEN 1
    ELSE IF ~content.syntaxOk THEN 2
    ELSE IF ~StructurallyValid(content.tree) THEN 3
    ELSE IF RegionRuleViolated(content.tree) THEN 4
    ELSE 0

C3_States ==
    /\ Len(ran) <= Len(Stages)
    /\ \A i \in DOMAIN ran : ran[i] = Stages[i]
    /\ pc # "idle" =>
          /\ loadResult = NoCall
          /\ FirstFailingStage \notin 1..Len(ran)
    /\ loadResult.kind = "return" =>
          /\ pc = "idle"
          /\ ran = Stages
          /\ FirstFailingStage = 0
          /\ loadResult.value.homeRegion = content.tree.homeRegion
    /\ loadResult.kind = "throw" =>
          /\ pc = "idle"
          /\ ran # <<>>
          /\ FirstFailingStage = Len(ran)
          /\ ~Has(loadResult, "value")
          /\ values = Undefined

C3_Steps ==
    /\ ran' # ran =>
          \/ ran' = <<"readFileSync">> /\ pc = "idle"
          \/ /\ ran' = Append(ran, Stages[Len(ran) + 1])
             /\ loadResult = NoCall
             /\ pc # "idle"
    /\ loadResult # NoCall => (loadResult' = loadResult \/ ran' = <<"readFileSync">>)

\* C3: load runs the file read, the deserialization, the structural parse
\* and the construction with its region rule in that order; it returns a
\* GlobalConfig only when all four succeeded; the first stage that fails ends
\* the call with a thrown error and no object, no later stage runs, and the
\* only step out of a finished call is a new call from the first stage.
C3_LoadPipeline == [](C3_States) /\ [][C3_Steps]_vars

\* C3 witness: a load has been rejected by the region rule, after the three
\* earlier stages succeeded.
C3_Witness ==
    /\ loadResult.kind = "throw"
    /\ ran = Stages
    /\ loadResult.error.issues # <<>>

\* the GlobalConfig a finished load returned
Loaded == loadResult.kind = "return"

\* C4: in the GlobalConfig a successful load returns, every top-level field
\* the document supplies holds the document's value (in particular
\* enabledRegions is the document's list) and every other field holds its
\* default.
C4_OverlayOnLoad ==
    Loaded =>
        /\ \A k \in DOMAIN content.tree :
               /\ Has(loadResult.value, k)
               /\ loadResult.value[k] = content.tree[k]
        /\ \A k \in (DOMAIN FieldInitializers) \ (DOMAIN content.tree) :
               loadResult.value[k] = FieldInitializers[k]

\* C5: every GlobalConfig a successful load returns with a commercial home
\* region other than us-east-1 has us-east-1 among its enabledRegions.
C5_UsEast1Enabled ==
    (/\ Loaded
     /\ loadResult.value.homeRegion \notin GovCloudRegions
     /\ loadResult.value.homeRegion # "us-east-1") =>
        \E i \in DOMAIN loadResult.value.enabledRegions :
            loadResult.value.enabledRegions[i] = "us-east-1"

StringLoaded == strResult.kind # "none"

\* C6: loadFromString never throws; when the deserialization, the structural
\* parse or the construction it attempts fails it logs a diagnostic and
\* returns undefined, and only otherwise it returns a GlobalConfig.
C6_NeverThrows ==
    StringLoaded =>
        /\ strResult.kind = "return"
        /\ LET failed == \/ ~content.syntaxOk
                         \/ ~StructurallyValid(content.tree)
                         \/ GlobalConfig(content.tree, Undefined).kind = "throw"
           IN  IF failed
               THEN /\ strResult.value = Undefined
                    /\ Len(strResult.log) = 2
                    /\ strResult.log[1] =
                         "[global-config] Error parsing input, global config undefined"
               ELSE /\ strResult.value # Undefined
                    /\ strResult.value.homeRegion = content.tree.homeRegion
                    /\ strResult.log = <<>>

\* C6 witness: loadFromString was given a well-formed text whose document
\* breaks the schema, and returned undefined with its two log lines.
C6_Witness ==
    /\ StringLoaded
    /\ content.syntaxOk
    /\ ~StructurallyValid(content.tree)
    /\ strResult.kind = "return"
    /\ strResult.value = Undefined
    /\ Len(strResult.log) = 2

\* C7: for every structurally valid document that violates the region rule,
\* loadFromString returns undefined and never a GlobalConfig.
C7_SemanticViolationAbsent ==
    (/\ StringLoaded
     /\ content.syntaxOk
     /\ StructurallyValid(content.tree)
     /\ RegionRuleViolated(content.tree)) =>
        /\ strResult.kind = "return"
        /\ strResult.value = Undefined

\* C8: on every content on which load returns a GlobalConfig, loadFromString
\* returns an equal GlobalConfig; on every content on which load throws,
\* loadFromString returns undefined.
C8_LoadersAgree ==
    (StringLoaded /\ fileExists) =>
        /\ Loaded => strResult.value = loadResult.value
        /\ loadResult.kind = "throw" => strResult.value = Undefined

\* the document holds exactly the given top-level keys, lists its home
\* region among supported enabled regions and satisfies the region rule
MinimalDocument(keys) ==
    /\ content.syntaxOk
    /\ DOMAIN content.tree = keys
    /\ Includes(content.tree.enabledRegions, content.tree.homeRegion)
    /\ \A i \in DOMAIN content.tree.enabledRegions :
           content.tree.enabledRegions[i] \in SupportedRegions
    /\ ~RegionRuleViolated(content.tree)

\* every field but homeRegion and enabledRegions holds its documented default
OtherFieldsDefault(c) ==
    /\ c.managementAccountAccessRole = "AWSControlTowerExecution"
    /\ c.cloudwatchLogRetentionInDays = 365
    /\ c.controlTower.enable = TRUE
    /\ c.logging.account = "LogArchive"
    /\ c.logging.cloudtrail.enable = FALSE
    /\ c.logging.cloudtrail.organizationTrail = FALSE
    /\ c.logging.sessionManager.sendToCloudWatchLogs = FALSE
    /\ c.logging.sessionManager.sendToS3 = FALSE
    /\ ~Has(c, "dataProtection")
    /\ ~Has(c, "reports")

RequiredSections ==
    {"managementAccountAccessRole", "cloudwatchLogRetentionInDays",
     "controlTower", "logging"}

NestedSections == {"controlTower", "logging", "dataProtection", "reports"}

\* object c holds, for every nested section, exactly the object vals
\* supplies, and for a section vals does not supply the untouched default
\* (none for dataProtection and reports)
ShallowOverlaid(c, vals) ==
    \A k \in NestedSections :
        IF Has(vals, k)
        THEN /\ Has(c, k)
             /\ c[k] = vals[k]
             /\ DOMAIN c[k] = DOMAIN vals[k]
        ELSE IF Has(FieldInitializers, k)
             THEN Has(c, k) /\ c[k] = FieldInitializers[k]
             ELSE ~Has(c, k)

\* the sub-fields of the default sessionManager that the supplied logging
\* section does not mention are absent in c
UnmentionedAbsent(c, vals) ==
    Has(vals, "logging") =>
        \A f \in (DOMAIN SessionManagerConfig) \ (DOMAIN vals.logging.sessionManager) :
            ~Has(c.logging.sessionManager, f)

\* C11: a GlobalConfig constructed from a values object, directly or by
\* load, holds for each nested section exactly the supplied object; a
\* sub-field the supplied section leaves out is absent, not defaulted, and a
\* section that is not supplied keeps its default.
C11_ShallowOverlay ==
    /\ (CtorWithValues /\ ctorResult.outcome.kind = "return") =>
          /\ ShallowOverlaid(ctorResult.outcome.value, ctorResult.values)
          /\ UnmentionedAbsent(ctorResult.outcome.value, ctorResult.values)
    /\ Loaded =>
          /\ ShallowOverlaid(loadResult.value, content.tree)
          /\ UnmentionedAbsent(loadResult.value, content.tree)

\* C11 witness: a construction was given a logging section without
\* excludeRegions and without dataProtection, and returned an object whose
\* sessionManager has no excludeRegions.
C11_Witness ==
    /\ CtorWithValues
    /\ ctorResult.outcome.kind = "return"
    /\ ~Has(ctorResult.values.logging.sessionManager, "excludeRegions")
    /\ ~Has(ctorResult.values, "dataProtection")
    /\ ~Has(ctorResult.outcome.value.logging.sessionManager, "excludeRegions")
    /\ ctorResult.outcome.value.controlTower = [enable |-> FALSE]

\* object c lists its home region among its enabled regions
HomeRegionEnabled(c) ==
    \E i \in DOMAIN c.enabledRegions : c.enabledRegions[i] = c.homeRegion

\* C12: every GlobalConfig object that a direct construction, load or
\* loadFromString has produced has its homeRegion among its enabledRegions.
C12_HomeRegionEnabled ==
    /\ (ctorResult.kind = "call" /\ ctorResult.outcome.kind = "return") =>
          HomeRegionEnabled(ctorResult.outcome.value)
    /\ Loaded => HomeRegionEnabled(loadResult.value)
    /\ (StringLoaded /\ strResult.kind = "return" /\ strResult.value # Undefined) =>
          HomeRegionEnabled(strResult.value)

\* C12 witness: load and loadFromString have both returned an object for a
\* document whose enabledRegions do not list its home region.
C12_Witness ==
    /\ Loaded
    /\ StringLoaded
    /\ strResult.value # Undefined
    /\ content.tree.homeRegion = "us-east-1"
    /\ content.tree.enabledRegions = <<"eu-west-1">>
    /\ HomeRegionEnabled(loadResult.value)
    /\ HomeRegionEnabled(strResult.value)

\* the direct constructor call was given a home region and no values, and
\* returned an object
DefaultOnlyConstructed ==
    /\ ctorResult.kind = "call"
    /\ ctorResult.values = Undefined
    /\ ctorResult.outcome.kind = "return"

====
